---- MODULE Spec2Model ----
(***************************************************************************)
(* Signal-generation and position-state engine of upbit_bot               *)
(* (src/src/upbit_bot/strategy.py), driven one poll cycle at a time as     *)
(* run_live_trading does (src/src/upbit_bot/main.py, lines 75-92):         *)
(* analyze_market, then execute_trade when a signal was returned, then the *)
(* sleep before the next cycle.                                            *)
(*                                                                         *)
(* Numbers.  Prices, balances and indicator values are integers.  A float  *)
(* comparison against entry_price * (1 +/- pct) is written with both sides *)
(* multiplied by 1000 (pct in thousandths); the prices of the model are    *)
(* chosen so that no comparison falls exactly on a threshold, where float  *)
(* rounding could decide.  position_size is kept in tenths (1.0 = 10).     *)
(* An indicator value is a set: {} is NaN, {v} is the number v, so that    *)
(* every comparison with NaN is false, as in Python.                       *)
(*                                                                         *)
(* The exchange (balances, prices, candles) is the environment: each cycle *)
(* reads what the exchange reports, any value of the input sets.  The      *)
(* account is the exchange's, not the instance's: its base-currency        *)
(* balance changes between cycles by fills and by trades made elsewhere    *)
(* on the same account, and may be positive before the first cycle.        *)
(*                                                                         *)
(* The instance is one whose api, market and interval fields hold what     *)
(* MeanReversionStrategy.__init__ documents (a gateway object, "KRW-BTC",  *)
(* "minute15"); a Momentum instance has in addition the fields assigned at *)
(* strategy.py lines 261-264.  Every method body is modelled as Python     *)
(* runs it, including the calls that raise.                                *)
(***************************************************************************)
EXTENDS Integers, Sequences, FiniteSets

\* ------------------------------------------------------------- bounds
\* Largest base-currency balance the exchange reports (0..MaxCoin).
MaxCoin == 1
\* Largest number of quote-currency units (of 5000) the exchange reports.
MaxKrwUnits == 1
\* rows of a candle frame
MaxCandles == 15

\* ------------------------------------------------- program constants
\* MeanReversionStrategy.__init__: stop_loss_pct = 0.012, take_profit_pct = 0.025
MR_stop_loss_pct == 12
MR_take_profit_pct == 25
\* MomentumStrategy.__init__: 0.015, 0.03, 0.05 and position_size = 1.0
MO_stop_loss_pct == 15
MO_partial_profit_pct == 30
MO_final_profit_pct == 50
\* position_size values assigned in the source, in tenths: 1.0, 0.5, 0.0
SizeFull == 10
SizeHalf == 5
SizeNone == 0
\* rolling windows of calculate_indicators
BandWindow == 15
RsiWindow == 14
StochWindow == 14
VolumeWindow == 20

\* ------------------------------------------------------ input domains
Strategies == {"mean_reversion", "momentum"}
Prices == {95, 100, 104, 106}
Coins == 0..MaxCoin
Krws == {5000 * k : k \in 0..MaxKrwUnits}
\* number of candles the provider returned (the API asks for 200)
CandleCounts == {5, 20}
\* closing prices of a candle
ClosePrices == {100, 101}
\* where a cycle's data collection raises, if anywhere
FailPoints == {"none", "balance", "init_price", "price", "candles"}

NaN == {}
Num(v) == {v}
\* Python float comparisons: false as soon as one side is NaN
LT(a, b) == \E x \in a, y \in b : x < y
GT(a, b) == \E x \in a, y \in b : x > y

\* Rolling(n, w, v): last value of a rolling(window = w) column over n rows:
\* NaN until the window is full.
Rolling(n, w, v) == IF n >= w THEN Num(v) ELSE NaN

\* ------------------------------------------------ float64 arithmetic
\* A float as a pair: << n, d >> with d > 0 is the number n/d in lowest
\* terms, << 1, 0 >> and << -1, 0 >> are +inf and -inf, << 0, 0 >> is NaN.
\* Rounding is not modelled.  A zero carries no sign; where the sign of a
\* zero divisor decides the result, it is the argument zs.
FNaN == << 0, 0 >>
FInf(s) == << s, 0 >>
IsFinite(x) == x[2] > 0
Abs(n) == IF n < 0 THEN -n ELSE n
Sign(n) == IF n < 0 THEN -1 ELSE IF n > 0 THEN 1 ELSE 0

RECURSIVE Gcd(_, _)
Gcd(a, b) == IF b = 0 THEN a ELSE Gcd(b, a % b)

Fin(n, d) == IF n = 0 THEN << 0, 1 >>
             ELSE LET g == Gcd(Abs(n), d) IN << n \div g, d \div g >>

\* x / y
FDiv(x, y, zs) ==
    IF x = FNaN \/ y = FNaN THEN FNaN
    ELSE IF IsFinite(x) /\ IsFinite(y)
    THEN IF y[1] = 0
         THEN IF x[1] = 0 THEN FNaN ELSE FInf(Sign(x[1]) * zs)
         ELSE Fin(x[1] * y[2] * Sign(y[1]), x[2] * Abs(y[1]))
    ELSE IF IsFinite(x) THEN Fin(0, 1)
    ELSE IF IsFinite(y) THEN FInf(x[1] * (IF y[1] = 0 THEN zs ELSE Sign(y[1])))
    ELSE FNaN

\* x + y
FAdd(x, y) ==
    IF x = FNaN \/ y = FNaN THEN FNaN
    ELSE IF IsFinite(x) /\ IsFinite(y)
    THEN Fin(x[1] * y[2] + y[1] * x[2], x[2] * y[2])
    ELSE IF IsFinite(y) THEN x
    ELSE IF IsFinite(x) THEN y
    ELSE IF x = y THEN x ELSE FNaN

\* x - y
FSub(x, y) == FAdd(x, << -y[1], y[2] >>)

\* ------------------------------------------------------------- RSI
\* delta = df["close"].diff(): NaN in the first row
Delta(close, i) == IF i = 1 THEN FNaN ELSE Fin(close[i] - close[i - 1], 1)

\* delta.where(delta > 0, 0): a NaN delta fails the test and becomes 0
Gain(close, i) ==
    LET d == Delta(close, i) IN IF d # FNaN /\ d[1] > 0 THEN d[1] ELSE 0

\* -delta.where(delta < 0, 0)
Loss(close, i) ==
    LET d == Delta(close, i) IN IF d # FNaN /\ d[1] < 0 THEN -d[1] ELSE 0

\* Sum of the rows from..to of each column
RECURSIVE GainSum(_, _, _)
GainSum(close, from, to) ==
    IF from > to THEN 0 ELSE Gain(close, from) + GainSum(close, from + 1, to)

RECURSIVE LossSum(_, _, _)
LossSum(close, from, to) ==
    IF from > to THEN 0 ELSE Loss(close, from) + LossSum(close, from + 1, to)

\* .rolling(window=14).mean() in the last row: NaN until there are 14 rows
RollingGain(close) ==
    LET n == Len(close)
    IN IF n < RsiWindow THEN FNaN
       ELSE Fin(GainSum(close, n - RsiWindow + 1, n), RsiWindow)

RollingLoss(close) ==
    LET n == Len(close)
    IN IF n < RsiWindow THEN FNaN
       ELSE Fin(LossSum(close, n - RsiWindow + 1, n), RsiWindow)

\* The last row of df["RSI"]; zs is the sign of the zero a loss-free window
\* averages to (the negated column holds -0.0).
CalcRSI(close, zs) ==
    LET gain == RollingGain(close)
        loss == RollingLoss(close)
        rs == FDiv(gain, loss, zs)
    IN FSub(Fin(100, 1), FDiv(Fin(100, 1), FAdd(Fin(1, 1), rs), zs))

\* The latest row of calculate_indicators over n candles.  MA/LowerBand come
\* in pairs (LowerBand = MA - 2 STD <= MA); Volume_Ratio is in hundredths.
\* MACD_Hist is an ewm(adjust=False) column: defined from the first row on.
IndicatorRow(n, band, rsi, hist, k, vol) ==
    [ MA           |-> Rolling(n, BandWindow, band[1]),
      LowerBand    |-> Rolling(n, BandWindow, band[2]),
      RSI          |-> Rolling(n, RsiWindow, rsi),
      MACD_Hist    |-> Num(hist),
      K            |-> Rolling(n, StochWindow, k),
      Volume_Ratio |-> Rolling(n, VolumeWindow, vol) ]

Rows ==
    { IndicatorRow(n, band, rsi, hist, k, vol) :
        n \in CandleCounts, band \in {<<98, 97>>, <<105, 101>>},
        rsi \in {25, 45, 80}, hist \in {-1, 1}, k \in {15, 85},
        vol \in {70, 130} }

NoRow == [ MA |-> NaN, LowerBand |-> NaN, RSI |-> NaN, MACD_Hist |-> NaN,
           K |-> NaN, Volume_Ratio |-> NaN ]

\* --------------------------------------------------------------- state
VARIABLES
    strategy,        \* which class the instance is
    entry_price,     \* self.entry_price
    position_size,   \* self.position_size, tenths (Momentum only)
    total_fee,       \* self.total_fee
    trade_count,     \* self.trade_count
    initial_balance, \* self.initial_balance: {} is None, {v} is v
    orders,          \* orders the gateway received from this instance
    last_error,      \* what the last execute_trade logged
    pc,              \* position in the poll cycle
    signal, reason,  \* what analyze_market returned in this cycle
    cur_coin, cur_price, latest,  \* what the cycle read from the exchange
    init_krw, init_price,  \* the quote balance and the price _initialize_balance used
                     \* in this cycle (0: it assigned nothing)
    exec_krw,        \* the account's quote-currency balance when execute_trade ran
    stopped_at,      \* where the loop was when KeyboardInterrupt ended it
    failed,          \* the FailPoint of this cycle's analyze_market
    pre_entry, pre_size,          \* entry_price, position_size at cycle start
    pre_counters,    \* << trade_count, total_fee >> at cycle start
    episode,         \* "none": no holding episode; "open": a Buy signal opened one and holdings
                     \* were not read as zero since; "partial": PARTIAL_PROFIT was returned in it
    partials_since_buy,  \* -1 before the first Buy signal, else PARTIAL_PROFITs since the last one
    df_close,        \* df["close"] of the candle frame being built
    df_RSI,          \* last value of df["RSI"] once calculate_indicators has run
    df_pc            \* "candles": rows arrive; "calculated": indicators are in the frame

vars == << strategy, entry_price, position_size, total_fee, trade_count,
           initial_balance, orders, last_error, pc, signal, reason,
           cur_coin, cur_price, latest, failed, pre_entry, pre_size,
           pre_counters, episode, partials_since_buy, init_krw, init_price,
           exec_krw, stopped_at, df_close, df_RSI, df_pc >>

\* The candle frame, which no step of the trading cycle below touches.
dfvars == << df_close, df_RSI, df_pc >>

\* The instance, which calculate_indicators does not touch.
selfvars == << strategy, entry_price, position_size, total_fee, trade_count,
               initial_balance, orders, last_error, pc, signal, reason,
               cur_coin, cur_price, latest, failed, pre_entry, pre_size,
               pre_counters, episode, partials_since_buy, init_krw, init_price,
               exec_krw, stopped_at >>

None == "None"

\* Result of an evaluator: the returned pair and the fields it leaves behind.
Result(sig, why, entry, size) ==
    [ signal |-> sig, reason |-> why, entry_price |-> entry, position_size |-> size ]

\* --------------------------------------------- Mean-Reversion evaluator
\* current_price <= self.entry_price * (1 - pct), pct in thousandths
BelowStop(price, entry, pct) == price * 1000 <= entry * (1000 - pct)
\* current_price >= self.entry_price * (1 + pct), pct in thousandths
AboveTarget(price, entry, pct) == price * 1000 >= entry * (1000 + pct)

\* _check_buy_signal without the volume condition.
MR_check_buy_signal_NoVolume(price, row, entry, size) ==
    IF /\ LT(Num(price), row.LowerBand)
       /\ LT(row.RSI, Num(30))
       /\ (GT(row.MACD_Hist, Num(0)) \/ LT(row.K, Num(20)))
    THEN Result("buy", "OVERSOLD", price, size)
    ELSE Result(None, None, entry, size)

\* _check_buy_signal clearing entry_price when it finds no entry.
MR_check_buy_signal_ClearsEntry(price, row, entry, size) ==
    IF /\ LT(Num(price), row.LowerBand)
       /\ LT(row.RSI, Num(30))
       /\ (GT(row.MACD_Hist, Num(0)) \/ LT(row.K, Num(20)))
       /\ GT(row.Volume_Ratio, Num(110))
    THEN Result("buy", "OVERSOLD", price, size)
    ELSE Result(None, None, 0, size)

MR_check_buy_signal(price, row, entry, size) ==
    IF /\ LT(Num(price), row.LowerBand)
       /\ LT(row.RSI, Num(30))
       /\ (GT(row.MACD_Hist, Num(0)) \/ LT(row.K, Num(20)))
       /\ GT(row.Volume_Ratio, Num(110))
    THEN Result("buy", "OVERSOLD", price, size)
    ELSE Result(None, None, entry, size)

MR_check_technical_sell_signal(row) ==
    \/ (GT(row.RSI, Num(75)) /\ LT(row.MACD_Hist, Num(0)))
    \/ (GT(row.K, Num(80)) /\ LT(row.Volume_Ratio, Num(80)))

\* _check_sell_signal with the technical exit tested before the stop-loss.
MR_check_sell_signal_TechFirst(price, row, entry, size) ==
    IF MR_check_technical_sell_signal(row)
    THEN Result("sell", "TECH_SIGNAL", entry, size)
    ELSE IF BelowStop(price, entry, MR_stop_loss_pct)
    THEN Result("sell", "STOP_LOSS", entry, size)
    ELSE IF AboveTarget(price, entry, MR_take_profit_pct)
    THEN Result("sell", "TAKE_PROFIT", entry, size)
    ELSE Result(None, None, entry, size)

\* _check_sell_signal with the price rules applied only once an entry price
\* has been recorded.
MR_check_sell_signal_NeedsEntry(price, row, entry, size) ==
    IF entry > 0 /\ BelowStop(price, entry, MR_stop_loss_pct)
    THEN Result("sell", "STOP_LOSS", entry, size)
    ELSE IF entry > 0 /\ AboveTarget(price, entry, MR_take_profit_pct)
    THEN Result("sell", "TAKE_PROFIT", entry, size)
    ELSE IF MR_check_technical_sell_signal(row)
    THEN Result("sell", "TECH_SIGNAL", entry, size)
    ELSE Result(None, None, entry, size)

MR_check_sell_signal(price, row, entry, size) ==
    IF BelowStop(price, entry, MR_stop_loss_pct)
    THEN Result("sell", "STOP_LOSS", entry, size)
    ELSE IF AboveTarget(price, entry, MR_take_profit_pct)
    THEN Result("sell", "TAKE_PROFIT", entry, size)
    ELSE IF MR_check_technical_sell_signal(row)
    THEN Result("sell", "TECH_SIGNAL", entry, size)
    ELSE Result(None, None, entry, size)

\* ---------------------------------------------------- Momentum evaluator
MO_analyze_buy_signal(price, row, entry, size) ==
    IF /\ GT(row.RSI, Num(50))
       /\ GT(row.MACD_Hist, Num(0))
       /\ GT(Num(price), row.MA)
       /\ GT(row.Volume_Ratio, Num(120))
    THEN Result("buy", "MOMENTUM_ENTRY", price, size)
    ELSE Result(None, None, entry, size)

\* _check_partial_profit without the test of position_size.
MO_check_partial_profit_AnySize(price, entry, size) ==
    AboveTarget(price, entry, MO_partial_profit_pct)

MO_check_partial_profit(price, entry, size) ==
    AboveTarget(price, entry, MO_partial_profit_pct) /\ size = SizeFull

MO_check_final_profit(price, entry, size) ==
    AboveTarget(price, entry, MO_final_profit_pct) /\ size = SizeHalf

MO_check_trend_reversal(price, row) ==
    /\ LT(row.RSI, Num(40))
    /\ LT(row.MACD_Hist, Num(0))
    /\ LT(Num(price), row.MA)

\* _analyze_sell_signal with STOP_LOSS leaving position_size as it is.
MO_analyze_sell_signal_StopKeepsSize(price, row, entry, size) ==
    IF BelowStop(price, entry, MO_stop_loss_pct)
    THEN Result("sell", "STOP_LOSS", entry, size)
    ELSE IF MO_check_partial_profit(price, entry, size)
    THEN Result("sell", "PARTIAL_PROFIT", entry, SizeHalf)
    ELSE IF MO_check_final_profit(price, entry, size)
    THEN Result("sell", "FINAL_PROFIT", entry, SizeNone)
    ELSE IF MO_check_trend_reversal(price, row)
    THEN Result("sell", "TREND_REVERSAL", entry, SizeNone)
    ELSE Result(None, None, entry, size)

\* _analyze_sell_signal with FINAL_PROFIT taking a full position off the
\* fraction instead of assigning 0.0.
MO_analyze_sell_signal_FinalSubtracts(price, row, entry, size) ==
    IF BelowStop(price, entry, MO_stop_loss_pct)
    THEN Result("sell", "STOP_LOSS", entry, SizeFull)
    ELSE IF MO_check_partial_profit(price, entry, size)
    THEN Result("sell", "PARTIAL_PROFIT", entry, SizeHalf)
    ELSE IF MO_check_final_profit(price, entry, size)
    THEN Result("sell", "FINAL_PROFIT", entry, size - SizeFull)
    ELSE IF MO_check_trend_reversal(price, row)
    THEN Result("sell", "TREND_REVERSAL", entry, SizeNone)
    ELSE Result(None, None, entry, size)

MO_analyze_sell_signal(price, row, entry, size) ==
    IF BelowStop(price, entry, MO_stop_loss_pct)
    THEN Result("sell", "STOP_LOSS", entry, SizeFull)
    ELSE IF MO_check_partial_profit(price, entry, size)
    THEN Result("sell", "PARTIAL_PROFIT", entry, SizeHalf)
    ELSE IF MO_check_final_profit(price, entry, size)
    THEN Result("sell", "FINAL_PROFIT", entry, SizeNone)
    ELSE IF MO_check_trend_reversal(price, row)
    THEN Result("sell", "TREND_REVERSAL", entry, SizeNone)
    ELSE Result(None, None, entry, size)

\* Evaluate with the branch on current_coin inverted (== 0 read as != 0).
Evaluate_BranchInverted(strat, coin, price, row, entry, size) ==
    IF strat = "momentum"
    THEN IF coin # 0 THEN MO_analyze_buy_signal(price, row, entry, size)
                     ELSE MO_analyze_sell_signal(price, row, entry, size)
    ELSE IF coin # 0 THEN MR_check_buy_signal(price, row, entry, size)
                     ELSE MR_check_sell_signal(price, row, entry, size)

\* The branch on current_coin in analyze_market of the two classes.
Evaluate(strat, coin, price, row, entry, size) ==
    IF strat = "momentum"
    THEN IF coin = 0 THEN MO_analyze_buy_signal(price, row, entry, size)
                     ELSE MO_analyze_sell_signal(price, row, entry, size)
    ELSE IF coin = 0 THEN MR_check_buy_signal(price, row, entry, size)
                     ELSE MR_check_sell_signal(price, row, entry, size)

\* _initialize_balance without the test for None: revalued in every cycle.
InitializeBalance_Always(init, krw, coin, price) ==
    Num(krw + coin * price)

\* _initialize_balance: assigns only while initial_balance is None.
InitializeBalance(init, krw, coin, price) ==
    IF init = NaN THEN Num(krw + coin * price) ELSE init

\* ------------------------------------------------------- Trade executor
\* _execute_buy_order as it would be with the order submitted whatever the
\* balance is.
MR_execute_buy_order_Submits(ord) ==
    [ orders |-> Append(ord, [side |-> "buy", volume |-> 1]), last_error |-> None ]

\* _execute_buy_order: line 221 calls self._get_krw_balance() without the
\* `balance` argument the method requires (line 113), so Python raises
\* TypeError there; the except of line 227 logs it.  The volume computation
\* and place_buy_order of lines 222-225 are never reached.
MR_execute_buy_order(ord) ==
    [ orders |-> ord, last_error |-> "Buy order failed" ]

\* _execute_sell_order: the same at line 232 with self._get_coin_balance()
\* (line 122 requires `balance`); place_sell_order of line 235, which would
\* pass the whole coin balance, is never reached.
MR_execute_sell_order(ord) ==
    [ orders |-> ord, last_error |-> "Sell order failed" ]

\* execute_trade(signal) for a signal that is not None (both classes: the
\* Momentum class inherits it).
ExecuteOrder(sig, ord) ==
    IF sig = "buy" THEN MR_execute_buy_order(ord) ELSE MR_execute_sell_order(ord)

\* ---------------------------------------------------------------- Init
Init ==
    /\ strategy \in Strategies
    /\ entry_price = 0
    /\ position_size = SizeFull
    /\ total_fee = 0
    /\ trade_count = 0
    /\ initial_balance = NaN
    /\ orders = << >>
    /\ last_error = None
    /\ pc = "analyze"
    /\ signal = None
    /\ reason = None
    /\ cur_coin = 0
    /\ cur_price = 0
    /\ latest = NoRow
    /\ failed = "none"
    /\ pre_entry = 0
    /\ pre_size = SizeFull
    /\ pre_counters = << 0, 0 >>
    /\ episode = "none"
    /\ partials_since_buy = -1
    /\ init_krw = 0
    /\ init_price = 0
    /\ exec_krw = 0
    /\ stopped_at = None
    /\ df_close = << >>
    /\ df_RSI = FNaN
    /\ df_pc = "candles"

\* ------------------------------------------------------------- actions
\* History of PARTIAL_PROFIT signals, kept for the ordering properties.
EpisodeAfter(res, coin, ep) ==
    IF res.signal = "buy" THEN "open"
    ELSE IF coin = 0 THEN "none"
    ELSE IF res.reason = "PARTIAL_PROFIT" /\ ep = "open" THEN "partial"
    ELSE ep

\* saturates at 2: "twice or more"
CountAfter(res, n) ==
    IF res.signal = "buy" THEN 0
    ELSE IF res.reason = "PARTIAL_PROFIT" /\ n >= 0 /\ n < 2 THEN n + 1
    ELSE n

\* The except clause as it would be if it put the position fields back to
\* their initial values.
OnException_Resets(entry, size) == Result(None, None, 0, SizeFull)

\* except Exception: return None, None (lines 108-111, 284-287, and the None
\* of _collect_market_data, lines 271-272): no field is assigned.
OnException(entry, size) == Result(None, None, entry, size)

\* One call of analyze_market.  f is where the data collection raises; the
\* except clause returns (None, None) with what was assigned until then.
\* krw, coin: the balances; p0: the price _initialize_balance reads;
\* price: the price _get_current_price reads; row: df.iloc[-1].
AnalyzeMarket(f, krw, coin, p0, price, row) ==
    /\ UNCHANGED dfvars
    /\ pc = "analyze"
    /\ f = "init_price" => initial_balance = NaN
    /\ pre_entry' = entry_price
    /\ pre_size' = position_size
    /\ pre_counters' = << trade_count, total_fee >>
    /\ failed' = f
    /\ initial_balance' =
         IF f \in {"balance", "init_price"} THEN initial_balance
         ELSE InitializeBalance(initial_balance, krw, coin, p0)
    /\ cur_coin' = IF f = "balance" THEN 0 ELSE coin
    /\ init_krw' = IF f \in {"balance", "init_price"} \/ initial_balance # NaN
                   THEN 0 ELSE krw
    /\ init_price' = IF f \in {"balance", "init_price"} \/ initial_balance # NaN
                     THEN 0 ELSE p0
    /\ cur_price' = IF f \in {"none", "candles"} THEN price ELSE 0
    /\ latest' = IF f = "none" THEN row ELSE NoRow
    /\ LET res == IF f = "none"
                  THEN Evaluate(strategy, coin, price, row, entry_price, position_size)
                  ELSE OnException(entry_price, position_size)
       IN /\ signal' = res.signal
          /\ reason' = res.reason
          /\ entry_price' = res.entry_price
          /\ position_size' = res.position_size
          /\ episode' =
               IF f = "balance" THEN episode ELSE EpisodeAfter(res, coin, episode)
          /\ partials_since_buy' = CountAfter(res, partials_since_buy)
          /\ pc' = IF res.signal = None THEN "sleep" ELSE "trade"
    /\ UNCHANGED << strategy, total_fee, trade_count, orders, last_error,
                    exec_krw, stopped_at >>

\* The values a cycle reads from the exchange; what a failing cycle never
\* reads is not chosen.  The quote balance and the first price matter to
\* _initialize_balance only, and only while initial_balance is None.
Cycle ==
    \E f \in FailPoints :
      \E coin \in (IF f = "balance" THEN {0} ELSE Coins),
         krw \in (IF f \in {"balance", "init_price"} \/ initial_balance # NaN
                  THEN {0} ELSE Krws),
         p0 \in (IF f \in {"balance", "init_price"} \/ initial_balance # NaN
                 THEN {100} ELSE Prices),
         price \in (IF f \in {"none", "candles"} THEN Prices ELSE {100}),
         row \in (IF f = "none" THEN Rows ELSE {NoRow}) :
         AnalyzeMarket(f, krw, coin, p0, price, row)

\* MeanReversionStrategy.analyze_market
MR_analyze_market ==
    /\ strategy = "mean_reversion"
    /\ Cycle

\* MomentumStrategy.analyze_market with _collect_market_data
MO_analyze_market ==
    /\ strategy = "momentum"
    /\ Cycle

\* execute_trade(signal), called by the loop when a signal was returned.
\* The account holds some quote-currency balance at that moment; the
\* executor fails before it reads it (line 221).
ExecuteTrade ==
    /\ UNCHANGED dfvars
    /\ pc = "trade"
    /\ exec_krw' \in Krws
    /\ LET out == ExecuteOrder(signal, orders)
       IN /\ orders' = out.orders
          /\ last_error' = out.last_error
    /\ pc' = "sleep"
    /\ UNCHANGED << strategy, entry_price, position_size, total_fee, trade_count,
                    initial_balance, signal, reason, cur_coin, cur_price, latest,
                    failed, pre_entry, pre_size, pre_counters,
                    episode, partials_since_buy, init_krw, init_price,
                    stopped_at >>

\* time.sleep(sleep_time): the cycle is over and its locals are gone; the
\* next one starts.
Sleep ==
    /\ UNCHANGED dfvars
    /\ pc = "sleep"
    /\ pc' = "analyze"
    /\ signal' = None
    /\ reason' = None
    /\ cur_coin' = 0
    /\ cur_price' = 0
    /\ latest' = NoRow
    /\ init_krw' = 0
    /\ init_price' = 0
    /\ exec_krw' = 0
    /\ failed' = "none"
    /\ pre_entry' = entry_price
    /\ pre_size' = position_size
    /\ pre_counters' = << trade_count, total_fee >>
    /\ UNCHANGED << strategy, entry_price, position_size, total_fee, trade_count,
                    initial_balance, orders, last_error, episode,
                    partials_since_buy, stopped_at >>

\* The cycle with execute_trade called as its signature declares it
\* (execute_trade(signal), strategy.py line 207).
Next == MR_analyze_market \/ MO_analyze_market \/ ExecuteTrade \/ Sleep

Spec == Init /\ [][Next]_vars

\* ------------------------------------------- the candle frame and its RSI
\* One more candle of the exchange's response, taken in the ascending time
\* order that sort_values("candle_date_time_utc") gives the frame.
GetCandle ==
    /\ df_pc = "candles"
    /\ Len(df_close) < MaxCandles
    /\ \E c \in ClosePrices : df_close' = Append(df_close, c)
    /\ UNCHANGED << df_RSI, df_pc >>
    /\ UNCHANGED selfvars

\* calculate_indicators on the frame: the RSI column's last row
CalculateIndicators ==
    /\ df_pc = "candles"
    /\ df_close # << >>
    /\ \E zs \in {-1, 1} : df_RSI' = CalcRSI(df_close, zs)
    /\ df_pc' = "calculated"
    /\ UNCHANGED df_close
    /\ UNCHANGED selfvars

NextRSI == GetCandle \/ CalculateIndicators

\* A MeanReversionStrategy instance, the class that defines
\* calculate_indicators, with an empty frame.
InitRSI == Init /\ strategy = "mean_reversion"

SpecRSI == InitRSI /\ [][NextRSI]_vars

\* ------------------------------------------- run_live_trading as written
\* main.py line 84 calls strategy.execute_trade(signal, reason): two
\* arguments for a method that takes one (strategy.py line 207).  Python
\* raises TypeError at the call, the body of execute_trade does not run, and
\* the except Exception of line 98 logs it and goes to time.sleep(60).
LoopExecuteTrade ==
    /\ UNCHANGED dfvars
    /\ pc = "trade"
    /\ pc' = "cooldown"
    /\ last_error' = "TypeError"
    /\ UNCHANGED << strategy, entry_price, position_size, total_fee, trade_count,
                    initial_balance, orders, signal, reason, cur_coin, cur_price,
                    latest, failed, pre_entry, pre_size, pre_counters, episode,
                    partials_since_buy, init_krw, init_price, exec_krw,
                    stopped_at >>

\* time.sleep(60) of line 100 is over: the while loop starts the next cycle.
Cooldown ==
    /\ UNCHANGED dfvars
    /\ pc = "cooldown"
    /\ pc' = "analyze"
    /\ signal' = None
    /\ reason' = None
    /\ cur_coin' = 0
    /\ cur_price' = 0
    /\ latest' = NoRow
    /\ init_krw' = 0
    /\ init_price' = 0
    /\ exec_krw' = 0
    /\ failed' = "none"
    /\ pre_entry' = entry_price
    /\ pre_size' = position_size
    /\ pre_counters' = << trade_count, total_fee >>
    /\ UNCHANGED << strategy, entry_price, position_size, total_fee, trade_count,
                    initial_balance, orders, last_error, episode,
                    partials_since_buy, stopped_at >>

\* KeyboardInterrupt (lines 94-96): raised wherever the main thread is when
\* the signal arrives; no except Exception clause catches it (it is a
\* BaseException), so it reaches line 94 from any point of the try body and
\* the loop breaks.
Interrupt ==
    /\ UNCHANGED dfvars
    /\ pc \in {"analyze", "trade", "sleep", "cooldown"}
    /\ stopped_at' = pc
    /\ pc' = "stopped"
    /\ UNCHANGED << strategy, entry_price, position_size, total_fee, trade_count,
                    initial_balance, orders, last_error, signal, reason, cur_coin,
                    cur_price, latest, failed, pre_entry, pre_size, pre_counters,
                    episode, partials_since_buy, init_krw, init_price, exec_krw >>

NextLoop ==
    \/ MR_analyze_market \/ MO_analyze_market
    \/ LoopExecuteTrade \/ Sleep \/ Cooldown \/ Interrupt

SpecLoop == Init /\ [][NextLoop]_vars

\* ============================================================== claims
\* The cycle's analyze_market ran to its evaluator (no data failure) and its
\* result is still in the cycle's locals.
Evaluated == pc # "analyze" /\ failed = "none"

\* The cycle is over: analyze_market and, for a signal, execute_trade ran.
CycleDone == pc = "sleep"

\* C1: analyze_market returns a Buy signal only if the base-currency balance
\* read in that cycle is exactly zero, and a Sell signal only if it is
\* greater than zero; a cycle returns one of None, buy, sell.
C1_SignalMatchesHoldings ==
    /\ signal \in {None, "buy", "sell"}
    /\ signal = "buy" => (failed = "none" /\ cur_coin = 0)
    /\ signal = "sell" => (failed = "none" /\ cur_coin > 0)

C1_Witness ==
    /\ Evaluated /\ strategy = "momentum"
    /\ signal = "sell" /\ cur_coin > 0 /\ reason = "TREND_REVERSAL"

\* C2: (Momentum) Sell FINAL_PROFIT is never returned in a holding episode
\* unless Sell PARTIAL_PROFIT was returned earlier in that same episode (an
\* episode runs from a Buy signal until holdings are read as zero).
C2_FinalOnlyAfterPartial ==
    (Evaluated /\ reason = "FINAL_PROFIT" /\ episode # "none") => episode = "partial"

\* C3: (Momentum) whenever Buy MOMENTUM_ENTRY is returned, entry_price is the
\* current price and position_size is 1.0, whatever the fraction was before.
C3_EntryResetsFraction ==
    (Evaluated /\ reason = "MOMENTUM_ENTRY")
        => (entry_price = cur_price /\ position_size = SizeFull)

\* C4: when execute_trade has handled a Sell returned with PARTIAL_PROFIT,
\* the gateway has received a sell order for half of the base-currency
\* balance (not the whole balance).
C4_PartialSellsHalf ==
    (CycleDone /\ reason = "PARTIAL_PROFIT")
        => /\ Len(orders) > 0
           /\ orders[Len(orders)].side = "sell"
           /\ 2 * orders[Len(orders)].volume = cur_coin

\* C5: if the order step of a cycle failed, then at the end of the cycle
\* trade_count, total_fee, entry_price and position_size have the values
\* they had when the cycle began.
C5_FailedOrderLeavesState ==
    (CycleDone /\ signal # None /\ last_error # None)
        => /\ << trade_count, total_fee >> = pre_counters
           /\ entry_price = pre_entry
           /\ position_size = pre_size

\* The latest row carries no rolling indicator: the candle history is shorter
\* than every lookback window.
Undefined(row) ==
    /\ row.MA = NaN /\ row.LowerBand = NaN /\ row.RSI = NaN
    /\ row.K = NaN /\ row.Volume_Ratio = NaN

\* C6: whenever the latest indicator row is undefined, the evaluator of
\* either strategy returns (None, None), flat or in position.
C6_UndefinedRowNoSignal ==
    (Evaluated /\ Undefined(latest)) => (signal = None /\ reason = None)

\* The stop-loss condition and the technical sell condition of the running
\* strategy, on the values the cycle read and the entry price it started with.
StopLossHolds ==
    BelowStop(cur_price, pre_entry,
              IF strategy = "momentum" THEN MO_stop_loss_pct ELSE MR_stop_loss_pct)

TechnicalSellHolds ==
    IF strategy = "momentum" THEN MO_check_trend_reversal(cur_price, latest)
    ELSE MR_check_technical_sell_signal(latest)

\* C7: if the stop-loss condition and a technical sell condition (TECH_SIGNAL
\* rule, TREND_REVERSAL rule) both hold in an in-position cycle, the returned
\* signal is Sell with reason STOP_LOSS.
C7_StopLossDominates ==
    (Evaluated /\ cur_coin > 0 /\ StopLossHolds /\ TechnicalSellHolds)
        => (signal = "sell" /\ reason = "STOP_LOSS")

C7_Witness ==
    /\ Evaluated /\ cur_coin > 0 /\ StopLossHolds /\ TechnicalSellHolds
    /\ strategy = "mean_reversion" /\ pre_entry > 0

\* C8: (Momentum) between one Buy signal and the next, PARTIAL_PROFIT is
\* returned at most once.
C8_PartialAtMostOnce ==
    partials_since_buy <= 1

\* C9: at every cycle boundary at which the base-currency balance read is
\* zero, entry_price is 0.
C9_FlatMeansNoEntry ==
    (CycleDone /\ failed = "none" /\ cur_coin = 0) => entry_price = 0

\* C11: a Buy handled by execute_trade while the quote-currency balance is
\* below the minimum order notional (5000) submits no order to the gateway
\* and leaves trade_count and total_fee unchanged.
C11_SmallBuySubmitsNothing ==
    (CycleDone /\ signal = "buy" /\ exec_krw < 5000)
        => (orders = << >> /\ << trade_count, total_fee >> = pre_counters)

C11_Witness ==
    /\ CycleDone /\ signal = "buy" /\ exec_krw < 5000
    /\ last_error = "Buy order failed"

\* A runtime failure occurred in this cycle: analyze_market's data collection
\* raised, or the execute_trade step raised.
CycleFailed ==
    \/ failed # "none"
    \/ (signal # None /\ last_error # None)

\* C12: every cycle in which a runtime failure occurs (in the evaluator or in
\* the trade executor) is followed by the 60 s cooldown, not by the normal
\* poll interval.
C12_FailureThenCooldown ==
    (pc \in {"sleep", "cooldown"} /\ CycleFailed) => pc = "cooldown"

\* C13: initial_balance is assigned once, in the first cycle whose balance
\* and price queries succeed, to quote balance + base balance * price; from
\* then on it keeps that value in every step.
C13_InitialBalanceSetOnce ==
    [][ /\ initial_balance # NaN => initial_balance' = initial_balance
        /\ (initial_balance = NaN /\ initial_balance' # NaN)
              => /\ failed' \notin {"balance", "init_price"}
                 /\ initial_balance' = Num(init_krw' + cur_coin' * init_price')
        /\ (initial_balance = NaN /\ pc = "analyze" /\ pc' # "analyze"
              /\ failed' \notin {"balance", "init_price"})
              => initial_balance' # NaN ]_vars

\* a later cycle reads another valuation and initial_balance keeps the first
C13_Witness ==
    /\ Evaluated /\ initial_balance = Num(5000)
    /\ cur_coin = 1 /\ signal = "sell"

\* Where the loop is, or was when it was interrupted.
LoopAt == IF pc = "stopped" THEN stopped_at ELSE pc

\* C14: if a step of analyze_market fails (balance query, price query, candle
\* fetch or candle data), analyze_market returns (None, None), the cycle has
\* no trade step and places no order, entry_price and position_size are
\* unchanged, and the loop is in its normal sleep before the next cycle.
C14_DataFailureIsNoSignal ==
    (failed # "none" /\ LoopAt # "analyze")
        => /\ signal = None /\ reason = None
           /\ LoopAt = "sleep"
           /\ orders = << >>
           /\ entry_price = pre_entry
           /\ position_size = pre_size

C14_Witness ==
    /\ failed = "candles" /\ pc = "sleep" /\ strategy = "momentum"
    /\ cur_coin > 0 /\ pre_entry > 0 /\ pre_size = SizeHalf

\* C15: a stop request ends the loop at a cycle boundary only; no run stops
\* between a cycle's evaluation and the execute_trade call for its signal.
C15_StopsOnlyBetweenCycles ==
    pc = "stopped" => stopped_at # "trade"

\* ------------------------------------------------ reference decision tables
\* A field of an indicator row compared with a number; a comparison with an
\* undefined field is false.
Under(x, n) == x # NaN /\ \A v \in x : v < n
Over(x, n) == x # NaN /\ \A v \in x : v > n

\* The first rule of a table whose condition holds, else the default.
FirstMatch(rules, default) ==
    IF \E i \in 1..Len(rules) : rules[i][1]
    THEN rules[CHOOSE i \in 1..Len(rules) :
                  rules[i][1] /\ \A j \in 1..(i - 1) : ~rules[j][1]][2]
    ELSE default

RefMR(price, coin, row, entry) ==
    IF coin = 0
    THEN FirstMatch(
           << << /\ Over(row.LowerBand, price)
                 /\ Under(row.RSI, 30)
                 /\ (Over(row.MACD_Hist, 0) \/ Under(row.K, 20))
                 /\ Over(row.Volume_Ratio, 110),
                 << "buy", "OVERSOLD" >> >> >>,
           << None, None >>)
    ELSE FirstMatch(
           << << 1000 * (entry - price) >= MR_stop_loss_pct * entry,
                 << "sell", "STOP_LOSS" >> >>,
              << 1000 * (price - entry) >= MR_take_profit_pct * entry,
                 << "sell", "TAKE_PROFIT" >> >>,
              << \/ (Over(row.RSI, 75) /\ Under(row.MACD_Hist, 0))
                 \/ (Over(row.K, 80) /\ Under(row.Volume_Ratio, 80)),
                 << "sell", "TECH_SIGNAL" >> >> >>,
           << None, None >>)

RefMO_Holding(price, row, entry, size) ==
    FirstMatch(
      << << 1000 * (entry - price) >= MO_stop_loss_pct * entry,
            << "sell", "STOP_LOSS", SizeFull >> >>,
         << 1000 * (price - entry) >= MO_partial_profit_pct * entry /\ size = SizeFull,
            << "sell", "PARTIAL_PROFIT", SizeHalf >> >>,
         << 1000 * (price - entry) >= MO_final_profit_pct * entry /\ size = SizeHalf,
            << "sell", "FINAL_PROFIT", SizeNone >> >>,
         << Under(row.RSI, 40) /\ Under(row.MACD_Hist, 0) /\ Over(row.MA, price),
            << "sell", "TREND_REVERSAL", SizeNone >> >> >>,
      << None, None, size >>)

\* C17: in position, the Momentum evaluator's signal, reason and new
\* position_size are what the first matching rule of the reference table
\* gives for the price, the row, and the entry price and fraction the cycle
\* started with.
C17_MomentumTable ==
    (Evaluated /\ strategy = "momentum" /\ cur_coin > 0)
        => << signal, reason, position_size >>
             = RefMO_Holding(cur_price, latest, pre_entry, pre_size)

C17_Witness ==
    /\ Evaluated /\ strategy = "momentum" /\ cur_coin > 0
    /\ pre_entry > 0 /\ pre_size = SizeHalf /\ reason = "STOP_LOSS"
    /\ position_size = SizeFull

\* C18: position_size of a Momentum instance is 1.0, 0.5 or 0.0 in every
\* reachable state.
C18_FractionInRange ==
    strategy = "momentum" => position_size \in {SizeFull, SizeHalf, SizeNone}

C18_Witness ==
    /\ strategy = "momentum" /\ position_size = SizeNone
    /\ reason = "FINAL_PROFIT" /\ pre_size = SizeHalf

\* C19: once position_size of a Momentum instance is 0.0, no evaluation
\* returns PARTIAL_PROFIT or FINAL_PROFIT, and position_size stays 0.0, until
\* an evaluation returns STOP_LOSS and sets it to 1.0; a Buy signal in
\* between changes neither.
C19_NoProfitExitAfterZero ==
    [][ (strategy = "momentum" /\ position_size = SizeNone)
          => /\ pc = "analyze"
                  => reason' \notin {"PARTIAL_PROFIT", "FINAL_PROFIT"}
             /\ position_size' # SizeNone
                  => /\ pc = "analyze"
                     /\ reason' = "STOP_LOSS"
                     /\ position_size' = SizeFull ]_vars

C19_Witness ==
    /\ Evaluated /\ strategy = "momentum" /\ cur_coin > 0
    /\ pre_size = SizeNone /\ position_size = SizeNone
    /\ episode = "open" /\ pre_entry > 0
    /\ AboveTarget(cur_price, pre_entry, MO_final_profit_pct)
    /\ signal = None

\* C20: a cycle that reads holdings > 0 while entry_price is still 0 returns
\* Sell/TAKE_PROFIT from the Mean-Reversion evaluator, and Sell/PARTIAL_PROFIT
\* from the Momentum evaluator when position_size is 1.0, whatever the price
\* and the indicator row are.
C20_HoldingsWithoutEntry ==
    (Evaluated /\ cur_coin > 0 /\ pre_entry = 0 /\ cur_price > 0)
        => /\ strategy = "mean_reversion"
                => << signal, reason >> = << "sell", "TAKE_PROFIT" >>
           /\ (strategy = "momentum" /\ pre_size = SizeFull)
                => << signal, reason >> = << "sell", "PARTIAL_PROFIT" >>

C20_Witness ==
    /\ Evaluated /\ strategy = "mean_reversion" /\ cur_coin > 0
    /\ pre_entry = 0 /\ cur_price = 95 /\ Undefined(latest)
    /\ reason = "TAKE_PROFIT"

\* C21: entry_price changes only in the evaluation of a cycle that returns a
\* Buy signal, position_size only in the evaluation of a cycle that returns a
\* Sell signal, and trade_count and total_fee only in a cycle that returned a
\* signal; so a cycle that returns (None, None) changes none of the four.
C21_EvaluatorFrame ==
    [][ /\ entry_price' # entry_price => (pc = "analyze" /\ signal' = "buy")
        /\ position_size' # position_size => (pc = "analyze" /\ signal' = "sell")
        /\ << trade_count, total_fee >>' # << trade_count, total_fee >>
             => (pc = "trade" /\ signal # None)
        /\ (pc = "analyze" /\ pc' # "analyze" /\ signal' = None)
             => /\ pc' = "sleep"
                /\ << entry_price, position_size, trade_count, total_fee >>'
                     = << entry_price, position_size, trade_count, total_fee >> ]_vars

C21_Witness ==
    /\ pc = "sleep" /\ failed = "none" /\ signal = None /\ reason = None
    /\ strategy = "momentum" /\ cur_coin > 0
    /\ pre_entry > 0 /\ pre_size = SizeHalf
    /\ entry_price = pre_entry /\ position_size = pre_size

\* C22: in a row whose 14-row window is full and whose average loss is 0,
\* the RSI is 100, whether the average gain is positive or 0 as well.
C22_ZeroLossRsiIs100 ==
    (/\ df_pc = "calculated"
     /\ Len(df_close) >= RsiWindow
     /\ RollingLoss(df_close) = Fin(0, 1))
        => df_RSI = Fin(100, 1)
====
